---- MODULE Spec2Model ----
(***************************************************************************)
(* Model of the AI course generation pipeline of                          *)
(* apps/server/src/modules/ai/routes.ts: the createCourse tool and the     *)
(* POST /ai/generate-course handler that consumes the model stream.        *)
(*                                                                         *)
(* Strings that the code only passes around are string tokens; strings    *)
(* the code transforms (titles -> slugs, ids -> suffixes) are sequences   *)
(* of one-character strings.  A message is a sequence of string tokens    *)
(* whose concatenation is the JavaScript string.                           *)
(***************************************************************************)
EXTENDS Integers, Sequences, FiniteSets, TLC

(***************************************************************************)
(* Bounds of the model.                                                    *)
(***************************************************************************)
\* chunks of the model stream one request consumes
MaxChunks == 2
\* lessons in one createCourse call
MaxLessons == 2
\* parts one chat data stream carries at most
MaxParts == 2
\* rows of the catalog the chat tools read
MaxCatalog == 3
\* characters of an id made by createId()
IdLen == 10

\* courseId.slice(-8)
SuffixLen == 8
\* z.string().min(10)
MinPromptLen == 10

(***************************************************************************)
(* Input domains.                                                          *)
(***************************************************************************)
\* the instructor stores the model starts from: none, one that is not the
\* id the model supplies, and two of which one is the id the model supplies
InstructorSets == { {}, {"i2"}, {"i1", "i2"} }
\* the id a model puts into the instructorId argument
ArgInstructorIds == {"i1"}
\* the title the model supplies: every invocation has the same title
Titles == { <<"A", " ", " ", "b", "!">> }
\* titles of the lessons a model supplies, in their natural order
LessonPool == << <<"L", "a">>, <<"L", "b">>, <<"L", "c">>, <<"L", "d">> >>
TextDeltas == {"Here is your course"}
\* messages of errors thrown by the data store
DbMessages == {"connection terminated"}
\* -1 stands for a body without a prompt field
PromptLens == {-1, 0, 9, 10}
IdPrefixChars == {"c", "d"}
IdSuffixChars == {"x", "y"}

Null == [isNull |-> TRUE]

(***************************************************************************)
(* createId(): an id is IdLen characters; the model draws it from ids made *)
(* of one prefix character and one suffix character.                       *)
(***************************************************************************)
MkId(p, s) == [i \in 1..IdLen |-> IF i <= IdLen - SuffixLen THEN p ELSE s]

IdSpace == { MkId(p, s) : p \in IdPrefixChars, s \in IdSuffixChars }

\* String.prototype.slice(-n)
SliceLast(str, n) ==
    SubSeq(str, (IF Len(str) > n THEN Len(str) - n + 1 ELSE 1), Len(str))

(***************************************************************************)
(* title.toLowerCase().replace(/\s+/g, '-').replace(/[^a-z0-9-]/g, '')     *)
(***************************************************************************)
LowerOf(c) ==
    CASE c = "A" -> "a"
      [] c = "B" -> "b"
      [] OTHER   -> c

toLowerCase(str) == [i \in 1..Len(str) |-> LowerOf(str[i])]

IsSpace(c) == c \in {" ", "\t", "\n"}

RECURSIVE replaceSpaceRuns(_)
replaceSpaceRuns(str) ==
    IF str = <<>> THEN <<>>
    ELSE IF IsSpace(Head(str))
         THEN IF Len(str) > 1 /\ IsSpace(str[2])
              THEN replaceSpaceRuns(Tail(str))
              ELSE <<"-">> \o replaceSpaceRuns(Tail(str))
         ELSE <<Head(str)>> \o replaceSpaceRuns(Tail(str))

SlugChars == {"a", "b", "c", "d", "x", "y", "0", "1", "-"}

removeNonSlugChars(str) == SelectSeq(str, LAMBDA c : c \in SlugChars)

baseSlugOf(title) == removeNonSlugChars(replaceSpaceRuns(toLowerCase(title)))

slugOf(title, courseId) ==
    baseSlugOf(title) \o <<"-">> \o SliceLast(courseId, SuffixLen)

(***************************************************************************)
(* State.                                                                  *)
(***************************************************************************)
VARIABLES
    instructors,    \* ids of the users rows with role 'instructor'
    courses,        \* rows of the courses table
    lessonsTable,   \* rows of the lessons table
    pc,             \* position of the generate-course handler
    consumed,       \* how many fullStream chunks of each type this request consumed
    chunk,          \* loop variable: the chunk consumed last, or Null
    courseCreated,  \* handler local
    courseData,     \* handler local
    aiResponse,     \* handler local: the text deltas received, in order
    response,       \* the HTTP response sent for this request, or Null
    coursesAtStart, \* courses table when this request was received
    lessonsAtStart, \* lessons table when this request was received
    anySuccess,     \* some createCourse result of this request had success:true
    prompt,         \* length of the prompt of the request body (-1: no prompt)
    contextRead,    \* the handler has queried the store for context
    gatewayCalled,  \* the handler has called streamText
    chatPc,         \* position of the chat handler
    chatBody,       \* req.body of the chat request, or Null
    chatHeads,      \* the response heads the chat handler has sent, in order
    actualModel,    \* the model id the chat handler gave the gateway, or Null
    dataStream,     \* parts of the data stream not yet read
    streamState,    \* "none", "open", "closed" or "errored"
    emitted,        \* number of parts the data stream has carried
    chatWritten,    \* the chunks passed to res.write, in order
    readerLocked,   \* the handler holds the reader of the data stream
    chatEnded,      \* the chat response has been ended
    clientConnected,\* the caller's connection is open
    streamError,    \* the exception caught while reading, or Null
    chatStep,       \* number of the model call of this chat turn (0: none)
    toolResults,    \* tool results the chat turn has produced
    contextResults, \* tool results the model has been given in its context
    toolCall,       \* the catalog tool invoked last with its arguments, or Null
    toolOutput,     \* what that invocation returned, or Null
    categoriesTable,\* rows of the categories table
    isWizardOpen,   \* AiCourseBuilderPage state
    wizard,         \* state of the mounted CourseBuilderWizard, or Null
    opens,          \* how many wizards the page has mounted so far
    inFlight,       \* the requests of fetchApi that have not settled
    sent,           \* how many requests the wizards have sent so far
    timers,         \* the pending setTimeout callbacks
    location,       \* the page the window shows
    settled,        \* the request that settled last with its response, or Null
    alertText       \* the text of the alert shown last, or Null

\* the chat handler's request
chatVars == <<chatPc, chatBody, chatHeads, actualModel, dataStream,
              streamState, emitted, chatWritten, readerLocked, chatEnded,
              clientConnected, streamError, chatStep, toolResults,
              contextResults>>

\* a catalog tool's invocation
queryVars == <<toolCall, toolOutput, categoriesTable>>

\* the generate-course handler's request and the tables
genVars == <<instructors, courses, lessonsTable, pc, consumed, chunk,
             courseCreated, courseData, aiResponse, response,
             coursesAtStart, lessonsAtStart, anySuccess,
             prompt, contextRead, gatewayCalled>>

\* the course builder page of the frontend
wizardVars == <<isWizardOpen, wizard, opens, inFlight, sent, timers,
                location, settled, alertText>>

vars == <<genVars, chatVars, queryVars, wizardVars>>

(***************************************************************************)
(* Messages.                                                               *)
(***************************************************************************)
MsgNoInstructors == <<"No instructors found in the database">>
MsgCourseCreationFailed ==
    <<"Course creation failed - no data returned from database">>
MsgLessonsFailedPrefix == "Failed to create lessons: "
MsgCreated == <<"Course has been successfully created and published">>
MsgToolNotCalled == <<"AI did not call the createCourse tool">>
ErrFailedToCreate == "Failed to create course"

\* JavaScript truthiness of a string: the concatenation is not ''
Truthy(msg) == \E i \in DOMAIN msg : msg[i] # ""

\* getRandomInstructor without the check for an empty result
getRandomInstructorUnchecked(instrs, pick) ==
    [threw |-> FALSE, id |-> pick, message |-> <<>>]

(***************************************************************************)
(* getRandomInstructor: throws when there is no instructor, else returns   *)
(* the picked one (pick stands for the Math.random() index).               *)
(***************************************************************************)
getRandomInstructor(instrs, pick) ==
    IF instrs = {}
    THEN [threw |-> TRUE, id |-> "", message |-> MsgNoInstructors]
    ELSE [threw |-> FALSE, id |-> pick, message |-> <<>>]

\* validInstructorId of createCourseTool.execute
validInstructorId(instrs, instructorId, pick) ==
    getRandomInstructor(instrs, pick)

CourseRow(courseId, title, instr) ==
    [id |-> courseId, title |-> title, slug |-> slugOf(title, courseId),
     instructorId |-> instr, price |-> "0", status |-> "published",
     description |-> <<"b">>, category |-> <<"b">>, level |-> <<"beginner">>,
     duration |-> "1h", rating |-> 0, enrollmentCount |-> 0]

\* lessonsToInsert with the 0-based index as the order
lessonsToInsertZeroBased(courseId, lessons) ==
    [i \in 1..Len(lessons) |->
        LET index == i - 1 IN
        [courseId |-> courseId, title |-> lessons[i],
         description |-> <<"b">>, order |-> index, isFree |-> (index = 0)]]

\* lessons.map((lesson, index) => ...): index is the 0-based position
lessonsToInsert(courseId, lessons) ==
    [i \in 1..Len(lessons) |->
        LET index == i - 1 IN
        [courseId |-> courseId, title |-> lessons[i],
         description |-> <<"b">>, order |-> index + 1,
         isFree |-> (index = 0)]]

SeqRange(sq) == { sq[i] : i \in DOMAIN sq }

\* the catch block of execute
FailureResult(msg) ==
    [success |-> FALSE, error |-> ErrFailedToCreate, message |-> msg]

SuccessResult(row, lessonsCount) ==
    [success |-> TRUE, course |-> row, lessonsCreated |-> lessonsCount,
     message |-> MsgCreated]

\* the inner catch swallowing the lesson failure
LessonInsertSwallowed(crs, lsn, row, dbmsg) ==
    [result |-> SuccessResult(row, 0),
     courses |-> crs \cup {row}, lessons |-> lsn]

\* the inner catch undoing the course insert
LessonInsertRolledBack(crs, lsn, row, dbmsg) ==
    [result |-> FailureResult(<<MsgLessonsFailedPrefix, dbmsg>>),
     courses |-> crs, lessons |-> lsn]

\* the inner catch around the lesson batch insert: rethrown, course row kept
LessonInsertFailed(crs, lsn, row, dbmsg) ==
    [result |-> FailureResult(<<MsgLessonsFailedPrefix, dbmsg>>),
     courses |-> crs \cup {row}, lessons |-> lsn]

\* hasLessons true for every list
hasLessonsAlways(lessons) == TRUE

\* lessons && lessons.length > 0
hasLessons(lessons) == Len(lessons) > 0

\* a check of the returned rows that never fires
noRowReturnedNever(courseInsert) == FALSE

\* !newCourse || newCourse.length === 0
noRowReturned(courseInsert) == courseInsert = "empty"

(***************************************************************************)
(* createCourseTool.execute.  ch holds the outcomes the code does not      *)
(* decide: the instructor picked, the id made by createId(), and what each *)
(* data store statement does (a multi-row INSERT is one statement: it      *)
(* inserts all its rows or throws and inserts none; an INSERT .. RETURNING *)
(* that returns no row has inserted none).                                 *)
(***************************************************************************)
createCourseExecute(instrs, crs, lsn, args, ch) ==
    LET unchanged(msg) ==
            [result |-> FailureResult(msg), courses |-> crs, lessons |-> lsn]
        inst == validInstructorId(instrs, args.instructorId, ch.pick)
        row  == CourseRow(ch.courseId, args.title, inst.id)
        n    == Len(args.lessons)
    IN  IF ch.instructorQuery = "throw" THEN unchanged(<<ch.dbmsg>>)
        ELSE IF inst.threw THEN unchanged(inst.message)
        ELSE IF ch.courseInsert = "throw" THEN unchanged(<<ch.dbmsg>>)
        ELSE IF noRowReturned(ch.courseInsert)
             THEN unchanged(MsgCourseCreationFailed)
        ELSE IF hasLessons(args.lessons) /\ ch.lessonInsert = "throw"
             THEN LessonInsertFailed(crs, lsn, row, ch.dbmsg)
        ELSE [result  |-> SuccessResult(row, n),
              courses |-> crs \cup {row},
              lessons |-> lsn \cup SeqRange(lessonsToInsert(ch.courseId, args.lessons))]

(***************************************************************************)
(* POST /ai/generate-course.                                               *)
(***************************************************************************)
IsNull(v) == v = Null

RECURSIVE trimStart(_)
trimStart(txt) ==
    IF txt # <<>> /\ IsSpace(Head(txt)) THEN trimStart(Tail(txt)) ELSE txt

RECURSIVE trimEnd(_)
trimEnd(txt) ==
    IF txt # <<>> /\ IsSpace(txt[Len(txt)])
    THEN trimEnd(SubSeq(txt, 1, Len(txt) - 1))
    ELSE txt

\* String.prototype.trim() on the accumulated deltas
trim(txt) == trimEnd(trimStart(txt))

\* courseData?.message || courseData?.error || 'AI did not call the createCourse tool'
failureDetails(data) ==
    IF IsNull(data) THEN MsgToolNotCalled
    ELSE IF Truthy(data.message) THEN data.message
    ELSE IF "error" \in DOMAIN data /\ data.error # "" THEN <<data.error>>
    ELSE MsgToolNotCalled

\* streamEndResponse accepting generated text in place of a tool result
streamEndResponseTextOk(created, data, text) ==
    IF (created /\ ~IsNull(data) /\ data.success) \/ text # <<>>
    THEN [status |-> 200,
          body |-> [success |-> TRUE,
                    course |-> IF IsNull(data) \/ ~data.success
                               THEN Null ELSE data.course,
                    message |-> IF IsNull(data) THEN <<>> ELSE data.message,
                    aiResponse |-> trim(text)]]
    ELSE [status |-> 500,
          body |-> [error |-> ErrFailedToCreate,
                    details |-> failureDetails(data),
                    aiResponse |-> trim(text), debugInfo |-> data]]

\* the response sent once the stream has been consumed
streamEndResponse(created, data, text) ==
    IF created /\ ~IsNull(data) /\ data.success
    THEN [status |-> 200,
          body |-> [success |-> TRUE, course |-> data.course,
                    message |-> data.message, aiResponse |-> trim(text)]]
    ELSE [status |-> 500,
          body |-> [error |-> ErrFailedToCreate,
                    details |-> failureDetails(data),
                    aiResponse |-> trim(text), debugInfo |-> data]]

\* the ZodError branch of the outer catch
validationResponse ==
    [status |-> 400,
     body |-> [error |-> "Invalid request data", details |-> <<"prompt">>]]

\* the outer catch answering in the shape of the stream's failure
caughtResponseWithDetails(dbmsg) ==
    [status |-> 500,
     body |-> [error |-> ErrFailedToCreate, details |-> <<dbmsg>>,
               aiResponse |-> <<>>, debugInfo |-> Null]]

\* the last statement of the outer catch
caughtResponse(dbmsg) ==
    [status |-> 500,
     body |-> [error |-> "Failed to generate course", message |-> <<dbmsg>>]]

\* a schema that asks for a non-empty prompt only
validPromptNonEmpty(promptLen) == promptLen >= 1

\* generateCourseSchema.parse: prompt is a string of at least 10 characters
validPrompt(promptLen) == promptLen >= MinPromptLen

ChunkTypes == {"text-delta", "tool-result", "error"}

NoneConsumed == [t \in ChunkTypes |-> 0]

\* the page of the course builder when it has loaded: no wizard is mounted
BuilderPage == "builder"

PageLoaded ==
    /\ isWizardOpen = FALSE
    /\ wizard = Null
    /\ opens = 0
    /\ inFlight = {}
    /\ sent = 0
    /\ timers = {}
    /\ location = BuilderPage
    /\ settled = Null
    /\ alertText = Null

\* no request has been received by either handler and no tool has run
HandlersIdle ==
    /\ PageLoaded
    /\ pc = "idle"
    /\ consumed = NoneConsumed
    /\ chunk = Null
    /\ courseCreated = FALSE
    /\ courseData = Null
    /\ aiResponse = <<>>
    /\ response = Null
    /\ coursesAtStart = {}
    /\ lessonsAtStart = {}
    /\ anySuccess = FALSE
    /\ prompt = -1
    /\ contextRead = FALSE
    /\ gatewayCalled = FALSE
    /\ chatPc = "idle"
    /\ chatBody = Null
    /\ chatHeads = <<>>
    /\ actualModel = Null
    /\ dataStream = <<>>
    /\ streamState = "none"
    /\ emitted = 0
    /\ chatWritten = <<>>
    /\ readerLocked = FALSE
    /\ chatEnded = FALSE
    /\ clientConnected = TRUE
    /\ streamError = Null
    /\ chatStep = 0
    /\ toolResults = 0
    /\ contextResults = 0
    /\ toolCall = Null
    /\ toolOutput = Null

\* rows of the categories table, which no handler writes
SeedCategories ==
    { [id |-> "c1", name |-> "web", description |-> "", icon |-> "", order |-> 2],
      [id |-> "c2", name |-> "data", description |-> "", icon |-> "", order |-> 1],
      [id |-> "c3", name |-> "ops", description |-> "", icon |-> "", order |-> 1] }

Init ==
    /\ instructors \in InstructorSets
    /\ courses = {}
    /\ lessonsTable = {}
    /\ categoriesTable = SeedCategories
    /\ HandlersIdle

\* a request arrives: the handler's locals are fresh
Arrive ==
    /\ pc = "idle"
    /\ consumed' = NoneConsumed
    /\ chunk' = Null
    /\ courseCreated' = FALSE
    /\ courseData' = Null
    /\ aiResponse' = <<>>
    /\ coursesAtStart' = courses
    /\ lessonsAtStart' = lessonsTable
    /\ anySuccess' = FALSE
    /\ UNCHANGED <<instructors, courses, lessonsTable, chatVars, queryVars,
                   wizardVars>>

\* the body does not parse: 400
RejectRequest(promptLen) ==
    /\ Arrive
    /\ prompt' = promptLen
    /\ ~validPrompt(promptLen)
    /\ contextRead' = FALSE
    /\ gatewayCalled' = FALSE
    /\ response' = validationResponse
    /\ pc' = "done"

\* one of the two context queries throws: the outer catch answers 500
ContextQueryFails(promptLen, dbmsg) ==
    /\ Arrive
    /\ prompt' = promptLen
    /\ validPrompt(promptLen)
    /\ contextRead' = TRUE
    /\ gatewayCalled' = FALSE
    /\ response' = caughtResponse(dbmsg)
    /\ pc' = "done"

\* the context is loaded and streamText has been called
StartStream(promptLen) ==
    /\ Arrive
    /\ prompt' = promptLen
    /\ validPrompt(promptLen)
    /\ contextRead' = TRUE
    /\ gatewayCalled' = TRUE
    /\ response' = Null
    /\ pc' = "streaming"

\* what the stream loop and the final answer leave alone: the request as it
\* was received, and the other handlers' state
reqVars == <<prompt, contextRead, gatewayCalled, chatVars, queryVars,
             wizardVars>>

ConsumedTotal ==
    consumed["text-delta"] + consumed["tool-result"] + consumed["error"]

CanConsume == pc = "streaming" /\ ConsumedTotal < MaxChunks

Consume(c) ==
    /\ chunk' = c
    /\ consumed' = [consumed EXCEPT ![c.type] = @ + 1]

\* chunk.type === 'text-delta'
TextDelta(delta) ==
    /\ CanConsume
    /\ Consume([type |-> "text-delta", textDelta |-> delta])
    /\ aiResponse' = Append(aiResponse, delta)
    /\ UNCHANGED <<instructors, courses, lessonsTable, pc,
                   courseCreated, courseData, response, coursesAtStart,
                   lessonsAtStart, anySuccess, reqVars>>

\* a chunk of any other type ('error', 'tool-call', 'finish', ...): ignored
OtherChunk(type) ==
    /\ CanConsume
    /\ Consume([type |-> type])
    /\ UNCHANGED <<instructors, courses, lessonsTable, pc,
                   courseCreated, courseData, aiResponse, response,
                   coursesAtStart, lessonsAtStart, anySuccess, reqVars>>

\* the model calls createCourse: the tool runs and the handler consumes the
\* 'tool-result' chunk (chunk.toolName is 'createCourse', the only tool)
ToolResult(args, ch) ==
    /\ CanConsume
    /\ LET out == createCourseExecute(instructors, courses, lessonsTable, args, ch)
       IN  /\ courses' = out.courses
           /\ lessonsTable' = out.lessons
           /\ courseCreated' = TRUE
           /\ courseData' = out.result
           /\ anySuccess' = (anySuccess \/ out.result.success)
    /\ Consume([type |-> "tool-result", toolName |-> "createCourse",
                 args |-> args, result |-> courseData'])
    /\ UNCHANGED <<instructors, pc, aiResponse, response,
                   coursesAtStart, lessonsAtStart, reqVars>>

\* the stream is exhausted: the handler answers
StreamEnd ==
    /\ pc = "streaming"
    /\ response' = streamEndResponse(courseCreated, courseData, aiResponse)
    /\ pc' = "done"
    /\ UNCHANGED <<instructors, courses, lessonsTable, consumed, chunk,
                   courseCreated, courseData, aiResponse, coursesAtStart,
                   lessonsAtStart, anySuccess, reqVars>>

\* the lessons of a call: the first n titles of the pool, in either order
Reverse(sq) == [i \in 1..Len(sq) |-> sq[Len(sq) + 1 - i]]

LessonLists ==
    { SubSeq(LessonPool, 1, n) : n \in 0..MaxLessons }
    \cup { Reverse(SubSeq(LessonPool, 1, n)) : n \in 0..MaxLessons }

ToolArgs ==
    [title : Titles, lessons : LessonLists, instructorId : ArgInstructorIds]

\* The outcomes createCourse does not decide, for the current state and the
\* arguments: which instructor is picked, the id createId() returns (one no
\* course row has yet), and what each data store statement does, or would
\* do if it ran (an insert of no rows throws as any other).  Fields no run
\* reads keep one fixed value.
Outcome(pick, courseId, iq, ci, li, dbmsg) ==
    [pick |-> pick, courseId |-> courseId, instructorQuery |-> iq,
     courseInsert |-> ci, lessonInsert |-> li, dbmsg |-> dbmsg]

AnyId == CHOOSE id \in IdSpace : TRUE

Choices(args) ==
    LET picks == IF instructors = {} THEN {""} ELSE instructors
        fresh == IdSpace \ { c.id : c \in courses }
    IN  { Outcome("", AnyId, "throw", "row", "ok", m) : m \in DbMessages }
        \cup
        (IF instructors = {}
         THEN { Outcome("", AnyId, "rows", "row", "ok", "") }
         ELSE { Outcome("", AnyId, "rows", "throw", "ok", m) : m \in DbMessages }
              \cup { Outcome("", AnyId, "rows", "empty", "ok", "") }
              \cup { Outcome(p, id, "rows", "row", "ok", "") :
                        p \in picks, id \in fresh }
              \cup { Outcome(p, id, "rows", "row", "throw", m) :
                        p \in picks, id \in fresh, m \in DbMessages })

\* chunk types the loop ignores; "finish" and "tool-call" are ignored the same way
OtherChunkTypes == {"error"}

Next ==
    \/ \E p \in PromptLens : RejectRequest(p)
    \/ \E p \in PromptLens, m \in DbMessages : ContextQueryFails(p, m)
    \/ \E p \in PromptLens : StartStream(p)
    \/ \E d \in TextDeltas : TextDelta(d)
    \/ \E t \in OtherChunkTypes : OtherChunk(t)
    \/ \E a \in ToolArgs : \E ch \in Choices(a) : ToolResult(a, ch)
    \/ StreamEnd

Spec == Init /\ [][Next]_vars

(***************************************************************************)
(* Vocabulary of the properties.                                           *)
(***************************************************************************)
\* this step consumes the result of a createCourse invocation
IsToolStep == consumed'["tool-result"] = consumed["tool-result"] + 1

\* the arguments of the invocation whose result the step consumes
StepArgs == chunk'.args

\* rows the step inserts
NewCourses == courses' \ courses
NewLessons == lessonsTable' \ lessonsTable

\* the handler has consumed the whole stream and answered
StreamConsumed ==
    pc = "done" /\ ~IsNull(response) /\ "aiResponse" \in DOMAIN response.body

TextOnly ==
    /\ consumed["text-delta"] >= 1
    /\ consumed["tool-result"] = 0
    /\ consumed["error"] = 0

\* the step inserts a course row and one lesson row per input lesson
FullyCommitted(a) ==
    \E c \in NewCourses :
        /\ c.title = a.title
        /\ \A l \in NewLessons : l.courseId = c.id
        /\ \A i \in 1..Len(a.lessons) :
              \E l \in NewLessons : l.order = i /\ l.title = a.lessons[i]
        /\ Cardinality(NewLessons) = Len(a.lessons)

(***************************************************************************)
(* C1: a createCourse invocation returns success:true exactly when its     *)
(* course row and all N input lesson rows are committed, and then          *)
(* lessonsCreated = N; every other outcome, a committed course row whose   *)
(* lesson insert failed included, returns success:false.                   *)
(***************************************************************************)
C1_SuccessIffFullyCommitted ==
    [][IsToolStep =>
        /\ courseData'.success \in BOOLEAN
        /\ courseData'.success <=> FullyCommitted(StepArgs)
        /\ courseData'.success =>
              /\ courseData'.course \in courses'
              /\ courseData'.lessonsCreated = Len(StepArgs.lessons)]_vars

C1_Witness ==
    /\ ~IsNull(courseData)
    /\ courseData.success
    /\ courseData.lessonsCreated = MaxLessons
    /\ Cardinality({ l \in lessonsTable : l.courseId = courseData.course.id })
          = MaxLessons

(***************************************************************************)
(* C2: when the stream of a generate-course request ends with text         *)
(* fragments only and no createCourse result, the handler answers with a   *)
(* failure and the request has inserted no course row and no lesson row.   *)
(***************************************************************************)
C2_TextOnlyFails ==
    (StreamConsumed /\ TextOnly) =>
        /\ response.status # 200
        /\ "success" \notin DOMAIN response.body
        /\ courses = coursesAtStart
        /\ lessonsTable = lessonsAtStart

C2_Witness ==
    /\ StreamConsumed
    /\ TextOnly
    /\ consumed["text-delta"] = MaxChunks
    /\ response.status = 500

(***************************************************************************)
(* C3: one generate-course request inserts at most one course row.         *)
(***************************************************************************)
C3_AtMostOneCoursePerRequest ==
    Cardinality(courses \ coursesAtStart) <= 1

(***************************************************************************)
(* C4: once the stream is consumed the handler answers 200 if and only if  *)
(* a createCourse invocation of the request reported success:true.         *)
(***************************************************************************)
C4_OkIffToolSucceeded ==
    StreamConsumed => (response.status = 200 <=> anySuccess)

(***************************************************************************)
(* C5: when the lesson batch insert throws after the course row was        *)
(* inserted, the result is success:false with a message that names lesson  *)
(* insertion, unlike every course-insert failure message, and the course   *)
(* row stays in the store with no lesson.                                  *)
(***************************************************************************)
CourseInsertFailureMessages ==
    {MsgCourseCreationFailed} \cup { <<m>> : m \in DbMessages }

C5_LessonFailureSurfaced ==
    [][IsToolStep =>
        \A ch \in Choices(StepArgs) :
            (ch.courseInsert = "row" /\ StepArgs.lessons # <<>>
               /\ ch.lessonInsert = "throw" /\ ToolResult(StepArgs, ch)) =>
                /\ courseData'.success = FALSE
                /\ courseData'.message[1] = MsgLessonsFailedPrefix
                /\ courseData'.message \notin CourseInsertFailureMessages
                /\ \E c \in NewCourses : c.id = ch.courseId
                /\ \A l \in lessonsTable' : l.courseId # ch.courseId]_vars

C5_Witness ==
    /\ ~IsNull(courseData)
    /\ ~courseData.success
    /\ courseData.message # <<>>
    /\ courseData.message[1] = MsgLessonsFailedPrefix
    /\ \E c \in courses : \A l \in lessonsTable : l.courseId # c.id

(***************************************************************************)
(* C6: a technical failure (the stream ends with an error event, or the    *)
(* tool call failed) is reported with details that differ from the reason  *)
(* of the policy failure, 'AI did not call the createCourse tool'.         *)
(***************************************************************************)
TechnicalFailure ==
    \/ ~IsNull(chunk) /\ chunk.type = "error"
    \/ courseCreated

C6_TechnicalFailureDistinct ==
    (StreamConsumed /\ response.status = 500 /\ TechnicalFailure) =>
        response.body.details # MsgToolNotCalled

(***************************************************************************)
(* C7: when the supplied instructorId is the id of an existing instructor, *)
(* the inserted course row carries that id; in all cases the row's         *)
(* instructorId is the id of an existing instructor.                       *)
(***************************************************************************)
C7_SuppliedInstructorKept ==
    [][IsToolStep =>
        \A c \in NewCourses :
            /\ c.instructorId \in instructors
            /\ StepArgs.instructorId \in instructors =>
                  c.instructorId = StepArgs.instructorId]_vars

(***************************************************************************)
(* C8: when the instructor query finds no instructor, createCourse returns *)
(* success:false with the no-instructors reason and inserts no row.        *)
(***************************************************************************)
C8_NoInstructorsFails ==
    [][IsToolStep =>
        \A ch \in Choices(StepArgs) :
            (instructors = {} /\ ch.instructorQuery = "rows"
               /\ ToolResult(StepArgs, ch)) =>
                /\ courseData'.success = FALSE
                /\ courseData'.message = MsgNoInstructors
                /\ courses' = courses
                /\ lessonsTable' = lessonsTable]_vars

C8_Witness ==
    /\ instructors = {}
    /\ ~IsNull(courseData)
    /\ courseData.message = MsgNoInstructors
    /\ courses = {}
    /\ lessonsTable = {}

(***************************************************************************)
(* C9: any two persisted courses have distinct slugs, the last 8           *)
(* characters of their ids being different.                                *)
(***************************************************************************)
C9_DistinctSlugs ==
    \A c1 \in courses : \A c2 \in courses :
        c1 # c2 =>
            /\ c1.slug # c2.slug
            /\ SliceLast(c1.id, SuffixLen) # SliceLast(c2.id, SuffixLen)

(***************************************************************************)
(* C10: a successful createCourse with N >= 1 lessons inserts lesson rows  *)
(* whose order values are exactly 1..N in input order; the row of order 1  *)
(* is free and no other row is.                                            *)
(***************************************************************************)
C10_LessonOrder ==
    [][(IsToolStep /\ courseData'.success /\ Len(StepArgs.lessons) >= 1) =>
        /\ { l.order : l \in NewLessons } = 1..Len(StepArgs.lessons)
        /\ Cardinality(NewLessons) = Len(StepArgs.lessons)
        /\ \A l \in NewLessons :
              /\ l.courseId = courseData'.course.id
              /\ l.title = StepArgs.lessons[l.order]
              /\ l.isFree = (l.order = 1)]_vars

C10_Witness ==
    /\ ~IsNull(courseData)
    /\ courseData.success
    /\ \E l1 \in lessonsTable : \E l2 \in lessonsTable :
          /\ l1.courseId = courseData.course.id
          /\ l2.courseId = courseData.course.id
          /\ l1.order = 1 /\ l1.isFree
          /\ l2.order = 2 /\ ~l2.isFree
          /\ l1.title # l2.title


(***************************************************************************)
(* C11: createCourse called with an empty lessons list while an instructor *)
(* exists and the course insert returns its row inserts the course row,    *)
(* runs no lesson insert, and returns success:true with lessonsCreated 0.  *)
(***************************************************************************)
C11_EmptyLessonsSucceeds ==
    [][IsToolStep =>
        \A ch \in Choices(StepArgs) :
            (instructors # {} /\ ch.instructorQuery = "rows"
               /\ ch.courseInsert = "row" /\ StepArgs.lessons = <<>>
               /\ ToolResult(StepArgs, ch)) =>
                /\ \E c \in NewCourses : c.id = ch.courseId
                /\ Cardinality(NewCourses) = 1
                /\ NewLessons = {}
                /\ courseData'.success = TRUE
                /\ courseData'.lessonsCreated = 0]_vars

C11_Witness ==
    /\ instructors # {}
    /\ ~IsNull(chunk)
    /\ chunk.type = "tool-result"
    /\ chunk.args.lessons = <<>>
    /\ ~IsNull(courseData)
    /\ courseData.success
    /\ courseData.lessonsCreated = 0
    /\ courseData.course \in courses
    /\ \A l \in lessonsTable : l.courseId # courseData.course.id

(***************************************************************************)
(* C12: a generate-course request without a prompt, or with a prompt of    *)
(* fewer than 10 characters, is answered 400 with a body of exactly the    *)
(* fields error and details; the store is neither read for context nor     *)
(* written and the model gateway is not called.                            *)
(***************************************************************************)
C12_ShortPromptRejected ==
    (pc = "done" /\ prompt < MinPromptLen) =>
        /\ response.status = 400
        /\ DOMAIN response.body = {"error", "details"}
        /\ ~contextRead
        /\ ~gatewayCalled
        /\ courses = coursesAtStart
        /\ lessonsTable = lessonsAtStart
        /\ consumed = NoneConsumed

C12_Witness ==
    /\ pc = "done"
    /\ prompt = MinPromptLen - 1
    /\ response.status = 400
    /\ ~gatewayCalled

C12_WitnessMissingPrompt ==
    /\ pc = "done"
    /\ prompt = -1
    /\ response.status = 400

(***************************************************************************)
(* C13: every failure of a generate-course request with a valid prompt (a  *)
(* context query throws, the tool is not called, or the tool result is a   *)
(* failure) is answered 500 with a body that has the fields error,         *)
(* details, aiResponse and debugInfo.                                      *)
(***************************************************************************)
FailureFields == {"error", "details", "aiResponse", "debugInfo"}

\* the request threw before the stream was opened
ThrownFailure == pc = "done" /\ contextRead /\ ~gatewayCalled

\* the stream ended without a createCourse result, or with a failed one
StreamFailure ==
    /\ pc = "done"
    /\ gatewayCalled
    /\ ~courseCreated \/ IsNull(courseData) \/ ~courseData.success

JsValue(kind, len) == [kind |-> kind, len |-> len]

Undefined == JsValue("undefined", 0)

\* values of req.body.messages
MessagesValues ==
    { Undefined, JsValue("null", 0), JsValue("string", 0),
      JsValue("string", 2), JsValue("array", 0), JsValue("array", 1) }

\* values of req.body.model: absent, or a string
ModelValues == {"undefined", "4o-mini", "gpt-4", "toString"}

ChatBodies == [messages : MessagesValues, model : ModelValues]

\* JavaScript's ToBoolean on the values above
JsTruthy(v) ==
    /\ v.kind \notin {"undefined", "null"}
    /\ v.kind = "string" => v.len > 0

isArray(v) == v.kind = "array"

\* a guard that tests for a missing value only
messagesRejectedFalsyOnly(messages) == ~JsTruthy(messages)

\* !messages || !Array.isArray(messages)
messagesRejected(messages) == ~JsTruthy(messages) \/ ~isArray(messages)

\* the destructuring default: model = '4o-mini'
modelOrDefault(model) == IF model = "undefined" THEN "4o-mini" ELSE model

\* modelMap[model]: the map's own key, a property every object inherits, or
\* undefined
modelMapLookup(model) ==
    IF model = "4o-mini" THEN "gpt-4o-mini"
    ELSE IF model = "toString" THEN "[Function: toString]"
    ELSE "undefined"

\* modelMap[model] || 'gpt-4o-mini'
actualModelOf(model) ==
    IF modelMapLookup(modelOrDefault(model)) = "undefined"
    THEN "gpt-4o-mini"
    ELSE modelMapLookup(modelOrDefault(model))

\* a response head with the field names of its JSON body
Head400 == [status |-> 400, body |-> {"error"}]
Head500 == [status |-> 500, body |-> {"error", "message"}]
Head200 == [status |-> 200, body |-> {}]

\* parts of the data stream: a text part, or the error part that the
\* gateway's error is turned into
DataParts == {"text", "error"}

ChatErrors == {"stream read failed"}

\* what a chat step leaves alone
chatRest == <<genVars, queryVars, wizardVars>>

\* the steps of the model and the tool results of the turn
stepVars == <<chatStep, toolResults, contextResults>>

ChatArrive(body) ==
    /\ chatPc = "idle"
    /\ body \in ChatBodies
    /\ chatBody' = body

\* messages is missing or is not a list: 400 before anything else
ChatReject(body) ==
    /\ ChatArrive(body)
    /\ messagesRejected(body.messages)
    /\ chatHeads' = Append(chatHeads, Head400)
    /\ chatEnded' = TRUE
    /\ chatPc' = "rejected"
    /\ UNCHANGED <<actualModel, dataStream, streamState, emitted, chatWritten,
                   readerLocked, clientConnected, streamError, chatRest, stepVars>>

\* streamText throws: the outer catch answers 500
ChatSetupThrows(body) ==
    /\ ChatArrive(body)
    /\ ~messagesRejected(body.messages)
    /\ actualModel' = [id |-> actualModelOf(body.model)]
    /\ chatHeads' = Append(chatHeads, Head500)
    /\ chatEnded' = TRUE
    /\ chatPc' = "error"
    /\ UNCHANGED <<dataStream, streamState, emitted, chatWritten,
                   readerLocked, clientConnected, streamError, chatRest, stepVars>>

\* streamText returns: the 200 head is written and the reader is taken
ChatStart(body) ==
    /\ ChatArrive(body)
    /\ ~messagesRejected(body.messages)
    /\ actualModel' = [id |-> actualModelOf(body.model)]
    /\ chatHeads' = Append(chatHeads, Head200)
    /\ streamState' = "open"
    /\ readerLocked' = TRUE
    /\ chatPc' = "streaming"
    /\ chatStep' = 1
    /\ UNCHANGED <<dataStream, emitted, chatWritten, chatEnded,
                   clientConnected, streamError, chatRest, toolResults,
                   contextResults>>

\* the data stream carries one more part
GatewayEmit(part) ==
    /\ streamState = "open"
    /\ emitted < MaxParts
    /\ dataStream' = Append(dataStream, part)
    /\ emitted' = emitted + 1
    /\ UNCHANGED <<chatPc, chatBody, chatHeads, actualModel, streamState,
                   chatWritten, readerLocked, chatEnded, clientConnected,
                   streamError, chatRest, stepVars>>

\* streamText is called without maxSteps, which then is 1
DefaultMaxSteps == 1

\* a finished step is followed by another model call when it made tool calls
\* and maxSteps allows one more
continueSteps(step, results, inContext) ==
    results > inContext /\ step < DefaultMaxSteps

\* the model's step finishes: its tool results go into the context of the
\* next model call if there is one, else the data stream is closed after
\* its last part
GatewayClose ==
    /\ streamState = "open"
    /\ IF continueSteps(chatStep, toolResults, contextResults)
       THEN /\ chatStep' = chatStep + 1
            /\ contextResults' = toolResults
            /\ streamState' = streamState
       ELSE /\ streamState' = "closed"
            /\ UNCHANGED <<chatStep, contextResults>>
    /\ UNCHANGED <<chatPc, chatBody, chatHeads, actualModel, dataStream,
                   emitted, chatWritten, readerLocked, chatEnded,
                   clientConnected, streamError, chatRest, toolResults>>

\* the data stream is errored: its queue is dropped and every read rejects
GatewayFail ==
    /\ streamState = "open"
    /\ streamState' = "errored"
    /\ dataStream' = <<>>
    /\ UNCHANGED <<chatPc, chatBody, chatHeads, actualModel, emitted,
                   chatWritten, readerLocked, chatEnded, clientConnected,
                   streamError, chatRest, stepVars>>

\* one turn of the while loop: reader.read() gives a chunk, res.write(text)
ChatRelay ==
    /\ chatPc = "streaming"
    /\ streamState # "errored"
    /\ dataStream # <<>>
    /\ chatWritten' = Append(chatWritten, Head(dataStream))
    /\ dataStream' = Tail(dataStream)
    /\ UNCHANGED <<chatPc, chatBody, chatHeads, actualModel, streamState,
                   emitted, readerLocked, chatEnded, clientConnected,
                   streamError, chatRest, stepVars>>

\* reader.read() gives done: the loop ends, finally releases and ends
ChatReadDone ==
    /\ chatPc = "streaming"
    /\ streamState = "closed"
    /\ dataStream = <<>>
    /\ readerLocked' = FALSE
    /\ chatEnded' = TRUE
    /\ chatPc' = "ended"
    /\ UNCHANGED <<chatBody, chatHeads, actualModel, dataStream, streamState,
                   emitted, chatWritten, clientConnected, streamError,
                   chatRest, stepVars>>

\* a read that rejects with no finally block behind it
ChatReadErrorNoFinally(err) ==
    /\ chatPc = "streaming"
    /\ streamState = "errored"
    /\ streamError' = [message |-> err]
    /\ chatPc' = "ended"
    /\ UNCHANGED <<chatBody, chatHeads, actualModel, dataStream, streamState,
                   emitted, chatWritten, readerLocked, chatEnded,
                   clientConnected, chatRest, stepVars>>

\* a read that rejects with no inner catch: the outer catch answers 500
ChatReadErrorToOuterCatch(err) ==
    /\ chatPc = "streaming"
    /\ streamState = "errored"
    /\ streamError' = [message |-> err]
    /\ chatHeads' = Append(chatHeads, Head500)
    /\ readerLocked' = FALSE
    /\ chatEnded' = TRUE
    /\ chatPc' = "ended"
    /\ UNCHANGED <<chatBody, actualModel, dataStream, streamState,
                   emitted, chatWritten, clientConnected, chatRest, stepVars>>

\* reader.read() rejects: the catch logs, finally releases and ends
ChatReadError(err) ==
    /\ chatPc = "streaming"
    /\ streamState = "errored"
    /\ streamError' = [message |-> err]
    /\ readerLocked' = FALSE
    /\ chatEnded' = TRUE
    /\ chatPc' = "ended"
    /\ UNCHANGED <<chatBody, chatHeads, actualModel, dataStream, streamState,
                   emitted, chatWritten, clientConnected, chatRest, stepVars>>

\* the caller closes the connection; the handler listens for no such event
ClientDisconnect ==
    /\ chatPc = "streaming"
    /\ clientConnected
    /\ clientConnected' = FALSE
    /\ UNCHANGED <<chatPc, chatBody, chatHeads, actualModel, dataStream,
                   streamState, emitted, chatWritten, readerLocked,
                   chatEnded, streamError, chatRest, stepVars>>




(***************************************************************************)
(* Vocabulary of the chat properties.                                      *)
(***************************************************************************)
ChatTerminal == {"ended", "rejected", "error"}

Completed == chatPc = "ended" /\ IsNull(streamError)

Failed == chatPc = "ended" /\ ~IsNull(streamError)

\* the caller was sent an error event
ErrorEventWritten == \E i \in 1..Len(chatWritten) : chatWritten[i] = "error"

(***************************************************************************)
(* C14: a chat request whose body has no messages field, or a messages     *)
(* value that is not a list, is answered 400 with a body of the field      *)
(* error before any streaming: the model gateway is not called and no 200  *)
(* head is written.                                                        *)
(***************************************************************************)
C14_NoMessagesRejected ==
    (chatPc # "idle" /\ chatBody.messages.kind # "array") =>
        /\ chatHeads = <<Head400>>
        /\ IsNull(actualModel)
        /\ streamState = "none"
        /\ chatWritten = <<>>
        /\ chatPc = "rejected"

C14_Witness ==
    /\ chatPc = "rejected"
    /\ chatBody.messages = JsValue("string", 2)
    /\ chatHeads = <<Head400>>

C14_WitnessMissing ==
    /\ chatPc = "rejected"
    /\ chatBody.messages = Undefined
    /\ chatHeads = <<Head400>>

(***************************************************************************)
(* C15: a chat request whose messages value is the empty list is rejected  *)
(* with a client error; it does not start streaming and the model gateway  *)
(* is not called.                                                          *)
(***************************************************************************)
C15_EmptyListRejected ==
    (chatPc # "idle" /\ chatBody.messages = JsValue("array", 0)) =>
        /\ chatPc = "rejected"
        /\ chatHeads[1].status \in 400..499
        /\ IsNull(actualModel)

(***************************************************************************)
(* C16: once the data stream of a streaming chat request is closed or      *)
(* errored, the response is eventually ended with the reader lock          *)
(* released; nothing is written and no head is sent after the response is  *)
(* ended; and no step leaves a terminal position, in which the response is *)
(* ended and the lock is free.                                             *)
(***************************************************************************)
C16_ChatLifecycle ==
    /\ (chatPc = "streaming" /\ streamState \in {"closed", "errored"})
          ~> (chatEnded /\ ~readerLocked /\ (Completed \/ Failed))
    /\ [][chatEnded =>
            /\ chatWritten' = chatWritten
            /\ chatHeads' = chatHeads
            /\ chatEnded']_vars
    /\ [][chatPc' # chatPc =>
            \/ chatPc = "idle" /\ chatPc' \in {"streaming", "rejected", "error"}
            \/ chatPc = "streaming" /\ chatPc' = "ended"]_vars
    /\ [][chatPc' \in ChatTerminal => (chatEnded' /\ ~readerLocked')]_vars

C16_Witness ==
    /\ Failed
    /\ chatEnded
    /\ ~readerLocked
    /\ Len(chatWritten) >= 1

C16_WitnessCompleted ==
    /\ Completed
    /\ chatEnded
    /\ ~readerLocked
    /\ Len(chatWritten) = MaxParts

(***************************************************************************)
(* C17: when a chat request fails while streaming, by an exception thrown  *)
(* by a read of the data stream, the caller has been sent an error event   *)
(* by the time the response is ended.                                      *)
(***************************************************************************)
C17_FailureVisible ==
    Failed => ErrorEventWritten

(***************************************************************************)
(* C18: after the caller has disconnected from a streaming chat request    *)
(* the handler reads no further chunk from the data stream and writes none *)
(* to the response.                                                        *)
(***************************************************************************)
C18_StopsOnDisconnect ==
    [][~clientConnected =>
          /\ chatWritten' = chatWritten
          /\ Len(dataStream') >= Len(dataStream)]_vars


(***************************************************************************)
(* The catalog tools of the chat: getAllCourses and searchCourses.         *)
(***************************************************************************)
DefaultAllLimit == 50
DefaultSearchLimit == 20

\* an optional tool parameter: absent, or present with a value
Absent == [present |-> FALSE, value |-> <<>>]
Given(v) == [present |-> TRUE, value |-> v]

\* rows of the courses table as the catalog tools see them; texts are
\* sequences of characters, a level is a sequence of one word, rating is in
\* tenths
SeedCourse(id, title, category, level, rating, enrollmentCount) ==
    [id |-> id, title |-> title, slug |-> id,
     instructorId |-> "i1", price |-> "0", status |-> "published",
     description |-> <<"b">>, category |-> category, level |-> level,
     duration |-> "1h", rating |-> rating,
     enrollmentCount |-> enrollmentCount]

SeedCourses ==
    { SeedCourse(MkId("k", "1"), <<"A", "B">>, <<"a">>, <<"beginner">>, 45, 10),
      SeedCourse(MkId("k", "2"), <<"B", "b">>, <<"b">>, <<"advanced">>, 45, 20),
      SeedCourse(MkId("k", "3"), <<"b">>, <<"b">>, <<"beginner">>, 30, 5),
      SeedCourse(MkId("k", "4"), <<"b">>, <<"b">>, <<"beginner">>, 30, 5) }

Catalogs == { c \in SUBSET SeedCourses : Cardinality(c) <= MaxCatalog }

\* the columns named in .select({...})
selectColumns(row) ==
    [id |-> row.id, title |-> row.title, description |-> row.description,
     category |-> row.category, level |-> row.level,
     duration |-> row.duration, rating |-> row.rating,
     enrollmentCount |-> row.enrollmentCount]

\* .orderBy(courses.rating, courses.enrollmentCount): both keys ascending
rowPrecedes(r1, r2) ==
    \/ r1.rating < r2.rating
    \/ r1.rating = r2.rating /\ r1.enrollmentCount <= r2.enrollmentCount

\* the orders in which the store may return the rows: rows equal in both
\* keys come in any order
orderBy(rows) ==
    { sq \in [1..Cardinality(rows) -> rows] :
        /\ \A i, j \in DOMAIN sq : i # j => sq[i] # sq[j]
        /\ \A i, j \in DOMAIN sq : i < j => rowPrecedes(sq[i], sq[j]) }

\* .limit(n)
limitRows(sq, n) == SubSeq(sq, 1, IF n < Len(sq) THEN n ELSE Len(sq))

\* the destructuring default of limit
limitOrDefault(limit, default) ==
    IF limit.present THEN limit.value ELSE default

\* text LIKE pattern: % is any run of characters, _ is any one character
RECURSIVE likeMatch(_, _)
likeMatch(text, pattern) ==
    IF pattern = <<>> THEN text = <<>>
    ELSE IF Head(pattern) = "%"
         THEN \/ likeMatch(text, Tail(pattern))
              \/ text # <<>> /\ likeMatch(Tail(text), pattern)
    ELSE /\ text # <<>>
         /\ Head(pattern) = "_" \/ Head(pattern) = Head(text)
         /\ likeMatch(Tail(text), Tail(pattern))

\* ilike(column, `%${query}%`)
ilikeContains(text, query) ==
    likeMatch(toLowerCase(text), <<"%">> \o toLowerCase(query) \o <<"%">>)

\* JavaScript's truthiness of an optional string parameter
truthyParam(param) == param.present /\ param.value # <<>>

\* the conditions pushed for one call, as a predicate on a row
whereClause(args, row) ==
    /\ truthyParam(args.query) =>
          \/ ilikeContains(row.title, args.query.value)
          \/ ilikeContains(row.description, args.query.value)
          \/ ilikeContains(row.category, args.query.value)
    /\ truthyParam(args.category) => row.category = args.category.value
    /\ truthyParam(args.level) => row.level = args.level.value

Limits == {Absent, Given(0), Given(1), Given(DefaultSearchLimit)}

Queries == {Absent, Given(<<>>), Given(<<"a">>), Given(<<"_", "b">>)}

CategoryParams == {Absent, Given(<<>>), Given(<<"b">>)}

\* level is absent or one of the enum's words
LevelParams == {Absent, Given(<<"beginner">>)}

SearchArgs ==
    [query : Queries, category : CategoryParams, level : LevelParams,
     limit : {Absent, Given(1)}]


\* the try block of getAllCourses with the listing the store returned
getAllCoursesResult(listing, limit) ==
    LET courseList ==
            [i \in DOMAIN limitRows(listing, limit) |->
                selectColumns(limitRows(listing, limit)[i])]
    IN  [courses |-> courseList, count |-> Len(courseList),
         totalShowing |-> Len(courseList), limit |-> limit]

\* the try block of searchCourses with the listing the store returned
searchCoursesResult(listing, args, limit) ==
    LET courseList ==
            [i \in DOMAIN limitRows(listing, limit) |->
                selectColumns(limitRows(listing, limit)[i])]
    IN  [courses |-> courseList, count |-> Len(courseList),
         searchTerm |-> args.query, category |-> args.category,
         level |-> args.level, limit |-> limit]

\* a catch block that throws the failure on to the caller of the tool
catalogFailureRethrown(msg) == [thrown |-> msg]

\* the catch block of a catalog tool
catalogFailure(msg) == [error |-> msg, courses |-> <<>>, count |-> 0]

\* what a catalog tool leaves alone
queryRest == <<genVars, chatVars, wizardVars>>

\* getAllCoursesTool.execute, the query succeeding
GetAllCourses(limit) ==
    /\ \E listing \in orderBy(courses) :
          toolOutput' =
              getAllCoursesResult(listing, limitOrDefault(limit, DefaultAllLimit))
    /\ toolCall' = [name |-> "getAllCourses", args |-> [limit |-> limit]]
    /\ UNCHANGED <<queryRest, categoriesTable>>

\* getAllCoursesTool.execute, the query throwing
GetAllCoursesFails(limit) ==
    /\ toolOutput' = catalogFailure("Failed to get all courses")
    /\ toolCall' = [name |-> "getAllCourses", args |-> [limit |-> limit]]
    /\ UNCHANGED <<queryRest, categoriesTable>>

\* searchCoursesTool.execute, the query succeeding
SearchCourses(args) ==
    /\ \E listing \in orderBy({ r \in courses : whereClause(args, r) }) :
          toolOutput' =
              searchCoursesResult(listing, args,
                  limitOrDefault(args.limit, DefaultSearchLimit))
    /\ toolCall' = [name |-> "searchCourses", args |-> args]
    /\ UNCHANGED <<queryRest, categoriesTable>>

\* searchCoursesTool.execute, the query throwing
SearchCoursesFails(args) ==
    /\ toolOutput' = catalogFailure("Failed to search courses")
    /\ toolCall' = [name |-> "searchCourses", args |-> args]
    /\ UNCHANGED <<queryRest, categoriesTable>>

\* the catalog is populated before the tools run
QueryInit ==
    /\ instructors \in {{"i1"}}
    /\ courses \in Catalogs
    /\ lessonsTable = {}
    /\ categoriesTable = SeedCategories
    /\ HandlersIdle

QueryNext ==
    \/ \E l \in Limits : GetAllCourses(l)
    \/ \E l \in Limits : GetAllCoursesFails(l)
    \/ \E a \in SearchArgs : SearchCourses(a)
    \/ \E a \in SearchArgs : SearchCoursesFails(a)

QuerySpec == QueryInit /\ [][QueryNext]_vars

(***************************************************************************)
(* Vocabulary of the catalog properties.                                   *)
(***************************************************************************)
Called(name) ==
    /\ ~IsNull(toolCall)
    /\ toolCall.name = name
    /\ "error" \notin DOMAIN toolOutput

\* r1 may stand before r2 when rating, then enrollment, are descending
rowPrecedesDescending(r1, r2) ==
    \/ r1.rating > r2.rating
    \/ r1.rating = r2.rating /\ r1.enrollmentCount >= r2.enrollmentCount

\* q is a substring of text, letter case aside
isSubstring(q, text) ==
    \E i \in 1..(Len(text) + 1) :
        /\ i + Len(q) - 1 <= Len(text)
        /\ SubSeq(toLowerCase(text), i, i + Len(q) - 1) = toLowerCase(q)

(***************************************************************************)
(* C19: getAllCourses returns at most limit courses (50 when limit is      *)
(* absent), in the order of descending rating and, among equal ratings,    *)
(* descending enrollment count; the returned courses are rows of the       *)
(* catalog, and an empty catalog gives an empty list with no error field.  *)
(***************************************************************************)
C19_GetAllCoursesListing ==
    Called("getAllCourses") =>
        LET out == toolOutput.courses
            limit == limitOrDefault(toolCall.args.limit, DefaultAllLimit)
        IN  /\ Len(out) <= limit
            /\ \A i, j \in DOMAIN out :
                  i < j => rowPrecedesDescending(out[i], out[j])
            /\ \A i \in DOMAIN out : \E r \in courses : out[i].id = r.id
            /\ courses = {} => out = <<>>

(***************************************************************************)
(* C20: every course searchCourses returns satisfies each supplied filter  *)
(* (its category is the supplied category, its level the supplied level,   *)
(* the supplied query a substring, letter case aside, of its title,        *)
(* description or category), and a call with no parameter returns the      *)
(* catalog capped at 20.                                                   *)
(***************************************************************************)
C20_SearchFilters ==
    Called("searchCourses") =>
        LET out == toolOutput.courses
            args == toolCall.args
        IN  /\ \A i \in DOMAIN out :
                  /\ args.category.present =>
                        out[i].category = args.category.value
                  /\ args.level.present => out[i].level = args.level.value
                  /\ args.query.present =>
                        \/ isSubstring(args.query.value, out[i].title)
                        \/ isSubstring(args.query.value, out[i].description)
                        \/ isSubstring(args.query.value, out[i].category)
            /\ (~args.query.present /\ ~args.category.present
                  /\ ~args.level.present /\ ~args.limit.present) =>
                  Len(out) = IF Cardinality(courses) < DefaultSearchLimit
                             THEN Cardinality(courses)
                             ELSE DefaultSearchLimit


(***************************************************************************)
(* C23: when the course insert of createCourse returns no row, the tool    *)
(* returns success:false with the course-creation-failed reason and        *)
(* inserts no lesson row (nor a course row).                               *)
(***************************************************************************)
\* the instructor query finds its rows and the course insert returns none
NoRowOutcome == Outcome("", AnyId, "rows", "empty", "ok", "")

C23_NoRowFails ==
    [][(IsToolStep /\ instructors # {} /\ ToolResult(StepArgs, NoRowOutcome)) =>
          /\ courseData'.success = FALSE
          /\ courseData'.message = MsgCourseCreationFailed
          /\ lessonsTable' = lessonsTable
          /\ courses' = courses]_vars

C23_Witness ==
    /\ instructors # {}
    /\ ~IsNull(courseData)
    /\ ~courseData.success
    /\ courseData.message = MsgCourseCreationFailed
    /\ chunk.type = "tool-result"
    /\ chunk.args.lessons # <<>>
    /\ lessonsTable = {}

(***************************************************************************)
(* C25: when a generate-course request is answered with a failure status,  *)
(* no createCourse invocation of the request reported success:true.        *)
(***************************************************************************)
C25_FailureMeansNoSuccess ==
    (pc = "done" /\ gatewayCalled /\ response.status >= 400) => ~anySuccess


(***************************************************************************)
(* The tool executors side by side: getLessons, getCategories, the two     *)
(* course tools above, and createCourse.                                   *)
(***************************************************************************)
LessonsPageSize == 20

\* the conditions getLessons pushes, as a predicate on a lesson row
lessonsWhereClause(args, row) ==
    /\ truthyParam(args.courseId) => row.courseId = args.courseId.value
    /\ truthyParam(args.query) =>
          \/ ilikeContains(row.title, args.query.value)
          \/ ilikeContains(row.description, args.query.value)

\* .orderBy(lessons.order): rows of equal order come in any order
orderByOrder(rows) ==
    { sq \in [1..Cardinality(rows) -> rows] :
        /\ \A i, j \in DOMAIN sq : i # j => sq[i] # sq[j]
        /\ \A i, j \in DOMAIN sq : i < j => sq[i].order <= sq[j].order }

\* .orderBy(categories.order, categories.name); names are compared by the
\* place of their first letter in the alphabet
nameRank(name) ==
    CASE name = "data" -> 4 [] name = "ops" -> 15 [] name = "web" -> 23
      [] OTHER -> 0

orderCategories(rows) ==
    { sq \in [1..Cardinality(rows) -> rows] :
        /\ \A i, j \in DOMAIN sq : i # j => sq[i] # sq[j]
        /\ \A i, j \in DOMAIN sq : i < j =>
              \/ sq[i].order < sq[j].order
              \/ /\ sq[i].order = sq[j].order
                 /\ nameRank(sq[i].name) <= nameRank(sq[j].name) }

\* the columns getCategories selects
categoryColumns(row) ==
    [id |-> row.id, name |-> row.name, description |-> row.description,
     icon |-> row.icon]

LessonArgs ==
    [courseId : {Absent, Given(<<>>), Given(MkId("c", "x"))},
     query : {Absent, Given(<<"a">>)}]

\* getLessonsTool.execute, the query succeeding
GetLessons(args) ==
    /\ \E listing \in orderByOrder({ r \in lessonsTable :
                                        lessonsWhereClause(args, r) }) :
          LET lessonList == limitRows(listing, LessonsPageSize)
          IN  toolOutput' =
                  [lessons |-> lessonList, count |-> Len(lessonList),
                   courseId |-> args.courseId, searchTerm |-> args.query]
    /\ toolCall' = [name |-> "getLessons", args |-> args]
    /\ UNCHANGED <<queryRest, categoriesTable>>

\* getLessonsTool.execute, the query throwing
GetLessonsFails(args) ==
    /\ toolOutput' = [error |-> "Failed to get lessons", lessons |-> <<>>,
                      count |-> 0]
    /\ toolCall' = [name |-> "getLessons", args |-> args]
    /\ UNCHANGED <<queryRest, categoriesTable>>

\* getCategoresTool.execute, the query succeeding
GetCategories ==
    /\ \E listing \in orderCategories(categoriesTable) :
          LET categoryList ==
                  [i \in DOMAIN listing |-> categoryColumns(listing[i])]
          IN  toolOutput' =
                  [categories |-> categoryList, count |-> Len(categoryList)]
    /\ toolCall' = [name |-> "getCategories", args |-> Null]
    /\ UNCHANGED <<queryRest, categoriesTable>>

\* getCategoresTool.execute, the query throwing
GetCategoriesFails ==
    /\ toolOutput' = [error |-> "Failed to get categories",
                      categories |-> <<>>, count |-> 0]
    /\ toolCall' = [name |-> "getCategories", args |-> Null]
    /\ UNCHANGED <<queryRest, categoriesTable>>

\* createCourseTool.execute called on the store as it is; the store holds at
\* most MaxCatalog courses
CreateCourse(args, ch) ==
    /\ Cardinality(courses) < MaxCatalog
    /\ LET out == createCourseExecute(instructors, courses, lessonsTable, args, ch)
       IN  /\ courses' = out.courses
           /\ lessonsTable' = out.lessons
           /\ toolOutput' = out.result
    /\ toolCall' = [name |-> "createCourse", args |-> args]
    /\ UNCHANGED <<instructors, pc, consumed, chunk, courseCreated,
                   courseData, aiResponse, response, coursesAtStart,
                   lessonsAtStart, anySuccess, prompt, contextRead,
                   gatewayCalled, chatVars, categoriesTable, wizardVars>>

\* the first n seed courses
FirstSeeds(n) ==
    { c \in SeedCourses :
        \E i \in 1..n : i <= 4 /\ c.id = MkId("k", <<"1", "2", "3", "4">>[i]) }

\* a catalog one course short of MaxCatalog
ToolInit ==
    /\ instructors \in InstructorSets
    /\ courses = FirstSeeds(MaxCatalog - 1)
    /\ lessonsTable = {}
    /\ categoriesTable = SeedCategories
    /\ HandlersIdle

ToolNext ==
    \/ \E l \in Limits : GetAllCourses(l)
    \/ \E l \in Limits : GetAllCoursesFails(l)
    \/ \E a \in SearchArgs : SearchCourses(a)
    \/ \E a \in SearchArgs : SearchCoursesFails(a)
    \/ \E a \in LessonArgs : GetLessons(a)
    \/ \E a \in LessonArgs : GetLessonsFails(a)
    \/ GetCategories
    \/ GetCategoriesFails
    \/ \E a \in ToolArgs : \E ch \in Choices(a) : CreateCourse(a, ch)

ToolSpec == ToolInit /\ [][ToolNext]_vars


(***************************************************************************)
(* C21: no tool executor throws across the tool boundary: whenever a data  *)
(* store statement of getAllCourses, searchCourses, getLessons,            *)
(* getCategories or createCourse throws, the executor returns a structured *)
(* result that carries an error field.                                     *)
(***************************************************************************)
\* this step is a run of the executor named in toolCall' in which a data
\* store statement threw
StoreThrew ==
    LET name == toolCall'.name
        args == toolCall'.args
    IN  \/ name = "getAllCourses" /\ GetAllCoursesFails(args.limit)
        \/ name = "searchCourses" /\ SearchCoursesFails(args)
        \/ name = "getLessons" /\ GetLessonsFails(args)
        \/ name = "getCategories" /\ GetCategoriesFails
        \/ /\ name = "createCourse"
           /\ \E ch \in Choices(args) :
                 /\ \/ ch.instructorQuery = "throw"
                    \/ ch.courseInsert = "throw"
                    \/ ch.lessonInsert = "throw" /\ args.lessons # <<>>
                 /\ CreateCourse(args, ch)

C21_ExecutorsReturnErrors ==
    [][~IsNull(toolCall') =>
          /\ "thrown" \notin DOMAIN toolOutput'
          /\ StoreThrew => "error" \in DOMAIN toolOutput']_vars

C21_Witness ==
    /\ ~IsNull(toolCall)
    /\ toolCall.name = "getCategories"
    /\ "error" \in DOMAIN toolOutput
    /\ toolOutput.count = 0

C21_WitnessCreateCourse ==
    /\ ~IsNull(toolCall)
    /\ toolCall.name = "createCourse"
    /\ "error" \in DOMAIN toolOutput
    /\ toolOutput.success = FALSE
    /\ toolOutput.message \in { <<m>> : m \in DbMessages }


(***************************************************************************)
(* Tool calls of a chat turn.                                              *)
(***************************************************************************)
\* the tools of the chat with createCourse among them
ChatToolsWithCreate ==
    {"getAllCourses", "searchCourses", "getLessons", "getCategories",
     "createCourse"}

\* tools: { getAllCourses, searchCourses, getLessons, getCategories }
ChatTools == {"getAllCourses", "searchCourses", "getLessons", "getCategories"}

NoSearchArgs ==
    [query |-> Absent, category |-> Absent, level |-> Absent, limit |-> Absent]

NoLessonArgs == [courseId |-> Absent, query |-> Absent]

NoCourseArgs ==
    [title |-> CHOOSE t \in Titles : TRUE, lessons |-> <<>>,
     instructorId |-> CHOOSE i \in ArgInstructorIds : TRUE]

\* what a tool called without any optional argument does to the tables and
\* may return, on the store as it is
ToolOutputs(name) ==
    LET reads(outs) ==
            { [result |-> o, courses |-> courses, lessons |-> lessonsTable] :
                o \in outs }
    IN  CASE name = "getAllCourses" ->
               reads({ getAllCoursesResult(l, DefaultAllLimit) :
                         l \in orderBy(courses) }
                     \cup {catalogFailure("Failed to get all courses")})
          [] name = "searchCourses" ->
               reads({ searchCoursesResult(l, NoSearchArgs, DefaultSearchLimit) :
                         l \in orderBy(courses) }
                     \cup {catalogFailure("Failed to search courses")})
          [] name = "getLessons" ->
               reads({ [lessons |-> limitRows(l, LessonsPageSize),
                        count |-> Len(limitRows(l, LessonsPageSize)),
                        courseId |-> Absent, searchTerm |-> Absent] :
                         l \in orderByOrder(lessonsTable) }
                     \cup {[error |-> "Failed to get lessons",
                            lessons |-> <<>>, count |-> 0]})
          [] name = "getCategories" ->
               reads({ [categories |->
                           [i \in DOMAIN l |-> categoryColumns(l[i])],
                        count |-> Len(l)] :
                         l \in orderCategories(categoriesTable) }
                     \cup {[error |-> "Failed to get categories",
                            categories |-> <<>>, count |-> 0]})
          [] name = "createCourse" ->
               { createCourseExecute(instructors, courses, lessonsTable,
                                     NoCourseArgs, ch) :
                   ch \in Choices(NoCourseArgs) }

\* the model calls a tool of the chat: the tool runs, and the data stream
\* carries the call and its result
GatewayToolCall(name, out) ==
    /\ streamState = "open"
    /\ emitted < MaxParts
    /\ courses' = out.courses
    /\ lessonsTable' = out.lessons
    /\ toolCall' = [name |-> name, args |-> Null]
    /\ toolOutput' = out.result
    /\ toolResults' = toolResults + 1
    /\ dataStream' = dataStream \o <<"tool-call", "tool-result">>
    /\ emitted' = emitted + 1
    /\ UNCHANGED <<instructors, pc, consumed, chunk, courseCreated,
                   courseData, aiResponse, response, coursesAtStart,
                   lessonsAtStart, anySuccess, prompt, contextResults,
                   contextRead, gatewayCalled, categoriesTable, chatPc,
                   chatBody, chatHeads, actualModel, streamState,
                   chatWritten, readerLocked, chatEnded, clientConnected,
                   streamError, chatStep, wizardVars>>

ChatNext ==
    \/ \E b \in ChatBodies : ChatReject(b)
    \/ \E b \in ChatBodies : ChatSetupThrows(b)
    \/ \E b \in ChatBodies : ChatStart(b)
    \/ \E part \in DataParts : GatewayEmit(part)
    \/ \E t \in ChatTools : \E out \in ToolOutputs(t) : GatewayToolCall(t, out)
    \/ GatewayClose
    \/ GatewayFail
    \/ ChatRelay
    \/ ChatReadDone
    \/ \E e \in ChatErrors : ChatReadError(e)
    \/ ClientDisconnect

\* a chat request arrives at a populated catalog
ChatInit ==
    /\ instructors = {"i1", "i2"}
    /\ courses = FirstSeeds(MaxCatalog - 1)
    /\ lessonsTable = {}
    /\ categoriesTable = SeedCategories
    /\ HandlersIdle

ChatSpec == ChatInit /\ [][ChatNext]_vars

\* the event loop runs the handler's continuation once its read has settled
ChatFairness ==
    /\ WF_vars(ChatRelay)
    /\ WF_vars(ChatReadDone)
    /\ WF_vars(\E e \in ChatErrors : ChatReadError(e))

ChatFairSpec == ChatSpec /\ ChatFairness


(***************************************************************************)
(* C22: in a chat turn every tool result is appended to the context of the *)
(* model before generation goes on: when the model's stream has reached    *)
(* its end, the model has been given every tool result of the turn.        *)
(***************************************************************************)
C22_ToolResultInContext ==
    (streamState = "closed" /\ toolResults > 0) =>
        contextResults = toolResults

(***************************************************************************)
(* C24: a chat request sends one response head: once a head is sent, the   *)
(* 200 of the stream or the 400 or 500 of a JSON answer, no step sends     *)
(* another.                                                                *)
(***************************************************************************)
C24_OneResponseHead ==
    /\ [](chatPc # "idle" => Len(chatHeads) = 1)
    /\ [][chatHeads # <<>> => chatHeads' = chatHeads]_vars

C24_Witness ==
    /\ Failed
    /\ chatHeads = <<Head200>>
    /\ chatEnded

(***************************************************************************)
(* C26: no step of a chat request changes a table: the tools the chat      *)
(* registers only read.                                                    *)
(***************************************************************************)
C26_ChatNeverWrites ==
    [][/\ courses' = courses
       /\ lessonsTable' = lessonsTable
       /\ instructors' = instructors
       /\ categoriesTable' = categoriesTable]_vars

C26_Witness ==
    /\ chatPc = "ended"
    /\ ~IsNull(toolCall)
    /\ toolCall.name = "getAllCourses"
    /\ "error" \notin DOMAIN toolOutput
    /\ toolOutput.count = Cardinality(courses)
    /\ toolOutput.count > 0

(***************************************************************************)
(* C27: whatever the model field of the chat body is, the model identifier *)
(* given to the gateway is 'gpt-4o-mini'.                                  *)
(***************************************************************************)
C27_AlwaysDefaultModel ==
    ~IsNull(actualModel) => actualModel.id = "gpt-4o-mini"


(***************************************************************************)
(* The course builder wizard of the frontend.                              *)
(***************************************************************************)
\* how many wizards the page may mount, how many requests they may send
MaxOpens == 2
MaxRequests == 2

\* what the textarea may hold
PromptTexts == {<<>>, <<" ">>, <<" ", "a">>}

\* the useState initial values of a wizard the page mounts
NewWizard(id) ==
    [id |-> id, currentStep |-> "prompt", prompt |-> <<>>,
     generatedCourse |-> Null, isSubmitting |-> FALSE, editedCourse |-> Null]

\* what fetch may come back with: a rejection, or a response with a status
\* and a body that is JSON or not
NetworkError == [failed |-> TRUE]
NotJson == [notJson |-> TRUE]

Responses ==
    { [status |-> 200, body |-> [success |-> TRUE]],
      [status |-> 200, body |-> [success |-> FALSE, details |-> "d"]],
      [status |-> 200, body |-> [success |-> FALSE]],
      [status |-> 200, body |-> [error |-> "e"]],
      [status |-> 200, body |-> NotJson],
      [status |-> 400, body |-> [error |-> "e"]],
      [status |-> 500, body |-> [message |-> "m"]],
      [status |-> 500, body |-> NotJson],
      NetworkError }

\* Response.ok
responseOk(resp) == resp.status \in 200..299

\* fetchApi: the value the promise resolves with, or the message of the
\* error it rejects with
fetchApi(resp) ==
    IF resp = NetworkError
    THEN [thrown |-> "Network error: Unable to connect to the server"]
    ELSE IF ~responseOk(resp)
    THEN LET error == IF resp.body = NotJson
                      THEN [message |-> "An error occurred"]
                      ELSE resp.body
         IN  [thrown |-> IF "message" \in DOMAIN error
                         THEN error.message
                         ELSE "HTTP " \o ToString(resp.status)]
    ELSE IF resp.body = NotJson
    THEN [thrown |-> "Network error: Unable to connect to the server"]
    ELSE [value |-> resp.body]

\* a generation that ends in the preview of the generated course
generateSettledToPreview(resp) ==
    LET result == fetchApi(resp)
    IN  IF "value" \in DOMAIN result /\ "success" \in DOMAIN result.value
           /\ result.value.success
        THEN [set |-> [currentStep |-> "preview",
                       generatedCourse |-> result.value,
                       editedCourse |-> result.value],
              timer |-> FALSE, alert |-> Null]
        ELSE [set |-> [currentStep |-> "prompt"], timer |-> FALSE,
              alert |-> [text |-> "Failed to generate course"]]

\* handleGenerateCourse after the await: the state it sets, whether it
\* starts the timer of the redirect, and the alert it shows
generateSettled(resp) ==
    LET result == fetchApi(resp)
    IN  IF "value" \in DOMAIN result /\ "success" \in DOMAIN result.value
           /\ result.value.success
        THEN [set |-> [currentStep |-> "success"], timer |-> TRUE,
              alert |-> Null]
        ELSE [set |-> [currentStep |-> "prompt"], timer |-> FALSE,
              alert |->
                [text |-> "Failed to generate course: " \o
                    (IF "thrown" \in DOMAIN result THEN result.thrown
                     ELSE IF "details" \in DOMAIN result.value
                     THEN result.value.details
                     ELSE "AI failed to create course")]]

\* handleSubmitCourse after the await
submitSettled(resp) ==
    IF "value" \in DOMAIN fetchApi(resp)
    THEN [set |-> [currentStep |-> "success", isSubmitting |-> FALSE],
          timer |-> TRUE, alert |-> Null]
    ELSE [set |-> [isSubmitting |-> FALSE], timer |-> FALSE,
          alert |-> [text |-> "Failed to create course. Please try again."]]

\* the state of a component after the set-state calls of a handler
setState(w, set) ==
    [f \in DOMAIN w |-> IF f \in DOMAIN set THEN set[f] ELSE w[f]]

Control(name) == [control |-> name, value |-> <<>>]

\* the step that shows the Generate Course button while generating as well
renderStepContentAlwaysGenerate(w) ==
    IF w.currentStep \in {"prompt", "generating"}
    THEN { [control |-> "textarea", value |-> t] : t \in PromptTexts }
         \cup {Control("Cancel")}
         \cup (IF trim(w.prompt) # <<>>
               THEN {Control("Generate Course")} ELSE {})
    ELSE {}

\* renderStepContent: the controls the step shows that are not disabled
renderStepContent(w) ==
    CASE w.currentStep = "prompt" ->
           { [control |-> "textarea", value |-> t] : t \in PromptTexts }
           \cup {Control("Cancel")}
           \cup (IF trim(w.prompt) # <<>>
                 THEN {Control("Generate Course")} ELSE {})
      [] w.currentStep = "generating" -> {}
      [] w.currentStep \in {"preview", "editing"} ->
           IF IsNull(w.editedCourse) THEN {}
           ELSE {Control("Edit/Preview"), Control("Cancel"),
                 Control("Back to Prompt")}
                \cup (IF ~w.isSubmitting
                      THEN {Control("Create Course")} ELSE {})
                \cup (IF w.currentStep = "editing"
                      THEN {[control |-> "Course Title", value |-> <<"a">>]}
                      ELSE {})
      [] w.currentStep = "success" -> {}

\* the handler of a control: the state it sets, whether it calls onClose,
\* and the requests it sends
handleControl(w, e) ==
    LET only(set) == [set |-> set, close |-> FALSE, send |-> {}]
    IN  CASE e.control = "textarea" -> only([prompt |-> e.value])
          [] e.control = "Cancel" ->
               [set |-> [id |-> w.id], close |-> TRUE, send |-> {}]
          [] e.control = "Generate Course" ->
               IF trim(w.prompt) = <<>> THEN only([id |-> w.id])
               ELSE [set |-> [currentStep |-> "generating"],
                     close |-> FALSE, send |-> {"generate"}]
          [] e.control = "Edit/Preview" ->
               only([currentStep |-> IF w.currentStep = "preview"
                                     THEN "editing" ELSE "preview"])
          [] e.control = "Back to Prompt" -> only([currentStep |-> "prompt"])
          [] e.control = "Create Course" ->
               IF IsNull(w.editedCourse) THEN only([id |-> w.id])
               ELSE [set |-> [isSubmitting |-> TRUE], close |-> FALSE,
                     send |-> {"create"}]
          [] e.control = "Course Title" ->
               only([editedCourse |-> [title |-> e.value]])

wizardRest == <<genVars, chatVars, queryVars>>

\* the Create New Course button of the page
OpenWizard ==
    /\ location = BuilderPage
    /\ ~isWizardOpen
    /\ opens < MaxOpens
    /\ isWizardOpen' = TRUE
    /\ opens' = opens + 1
    /\ wizard' = NewWizard(opens + 1)
    /\ UNCHANGED <<inFlight, sent, timers, location, settled, alertText,
                   wizardRest>>

\* the X button of the wizard: onClose, and the page unmounts the wizard
CloseWizard ==
    /\ location = BuilderPage
    /\ isWizardOpen
    /\ isWizardOpen' = FALSE
    /\ wizard' = Null
    /\ UNCHANGED <<opens, inFlight, sent, timers, location, settled,
                   alertText, wizardRest>>

\* the user works a control of the step
StepControl(e) ==
    /\ location = BuilderPage
    /\ isWizardOpen
    /\ e \in renderStepContent(wizard)
    /\ LET out == handleControl(wizard, e)
       IN  /\ sent + Cardinality(out.send) <= MaxRequests
           /\ isWizardOpen' = ~out.close
           /\ wizard' = IF out.close THEN Null
                        ELSE setState(wizard, out.set)
           /\ inFlight' = inFlight \cup
                  { [req |-> sent + 1, inst |-> wizard.id, kind |-> k] :
                      k \in out.send }
           /\ sent' = sent + Cardinality(out.send)
    /\ UNCHANGED <<opens, timers, location, settled, alertText, wizardRest>>

\* a request settles and its handler goes on after the await; the state of
\* a wizard that is no longer mounted is not set
Settle(r, resp) ==
    /\ location = BuilderPage
    /\ r \in inFlight
    /\ inFlight' = inFlight \ {r}
    /\ settled' = [req |-> r.req, inst |-> r.inst, response |-> resp]
    /\ LET out == IF r.kind = "generate" THEN generateSettled(resp)
                  ELSE submitSettled(resp)
       IN  /\ wizard' = IF ~IsNull(wizard) /\ wizard.id = r.inst
                        THEN setState(wizard, out.set)
                        ELSE wizard
           /\ timers' = IF out.timer
                        THEN timers \cup {[req |-> r.req, inst |-> r.inst]}
                        ELSE timers
           /\ alertText' = IF IsNull(out.alert) THEN alertText ELSE out.alert
    /\ UNCHANGED <<isWizardOpen, opens, sent, location, wizardRest>>

\* the timer of a success runs: onClose(), then the window leaves the page
TimerFires(t) ==
    /\ location = BuilderPage
    /\ t \in timers
    /\ timers' = timers \ {t}
    /\ isWizardOpen' = FALSE
    /\ wizard' = Null
    /\ location' = "/courses"
    /\ UNCHANGED <<opens, inFlight, sent, settled, alertText, wizardRest>>

\* the page has loaded; it reads no table
WizardInit == Init /\ instructors = {"i1", "i2"}

WizardNext ==
    \/ OpenWizard
    \/ CloseWizard
    \/ \E e \in { [control |-> c, value |-> t] :
                    c \in {"textarea", "Cancel", "Generate Course",
                           "Edit/Preview", "Back to Prompt",
                           "Create Course", "Course Title"},
                    t \in PromptTexts \cup {<<"a">>} } : StepControl(e)
    \/ \E r \in inFlight : \E resp \in Responses : Settle(r, resp)
    \/ \E t \in timers : TimerFires(t)

WizardSpec == WizardInit /\ [][WizardNext]_vars


\* the request resolved with a body whose success is true
ResolvedWithSuccess(resp) ==
    /\ resp # NetworkError
    /\ resp.status \in 200..299
    /\ resp.body # NotJson
    /\ "success" \in DOMAIN resp.body
    /\ resp.body.success = TRUE

\* the wizard that sent the request that settled last is the mounted one
SettledHere ==
    /\ ~IsNull(settled)
    /\ ~IsNull(wizard)
    /\ wizard.id = settled.inst

(***************************************************************************)
(* C28: a wizard is only ever at the steps 'prompt', 'generating' and      *)
(* 'success', its editedCourse stays null, and no create-course request is *)
(* sent.                                                                   *)
(***************************************************************************)
C28_PreviewUnreachable ==
    /\ ~IsNull(wizard) =>
         /\ wizard.currentStep \in {"prompt", "generating", "success"}
         /\ IsNull(wizard.editedCourse)
    /\ \A r \in inFlight : r.kind # "create"

C28_Witness ==
    /\ SettledHere
    /\ ResolvedWithSuccess(settled.response)
    /\ wizard.currentStep = "success"
    /\ IsNull(wizard.editedCourse)

(***************************************************************************)
(* C29: a generation request that settles takes its wizard from            *)
(* 'generating' to 'success' when it resolved with success true and to     *)
(* 'prompt' in every other case; a wizard at 'generating' starts no        *)
(* second generation request.                                              *)
(***************************************************************************)
C29_SettledLeavesGenerating ==
    /\ [][\A r \in inFlight \ inFlight' :
            (r.kind = "generate" /\ ~IsNull(wizard) /\ wizard.id = r.inst) =>
                /\ wizard.currentStep = "generating"
                /\ ~IsNull(wizard')
                /\ wizard'.currentStep =
                       IF ResolvedWithSuccess(settled'.response)
                       THEN "success" ELSE "prompt"]_vars
    /\ [][\A r \in inFlight' \ inFlight :
            /\ wizard.currentStep # "generating"
            /\ \A q \in inFlight : q.inst # r.inst]_vars

C29_Witness ==
    /\ SettledHere
    /\ ~ResolvedWithSuccess(settled.response)
    /\ wizard.currentStep = "prompt"
    /\ ~IsNull(alertText)
    /\ sent = 1

C29_WitnessSuccess ==
    /\ SettledHere
    /\ ResolvedWithSuccess(settled.response)
    /\ wizard.currentStep = "success"
    /\ sent = 2

(***************************************************************************)
(* C30: the window leaves for /courses only while the wizard whose request *)
(* started the timer is open.                                              *)
(***************************************************************************)
C30_RedirectOnlyWhileOpen ==
    [][location' # location =>
         \A t \in timers \ timers' :
            /\ isWizardOpen
            /\ ~IsNull(wizard)
            /\ wizard.id = t.inst]_vars

====
